---- MODULE Spec2Model ----
(***************************************************************************)
(* HorizontalDock (openhantek/src/docks/HorizontalDock.cpp): the dock     *)
(* that binds the samplerate, timebase, format and calibration-frequency   *)
(* controls to scope->horizontal.                                          *)
(*                                                                         *)
(* Numbers.  The C++ doubles are modelled as exact decimal numbers         *)
(* m * 10^e, kept as records [m, e] with a mantissa that carries no        *)
(* trailing zero, so that equal numbers are equal records.  All arithmetic *)
(* below is exact; IEEE-754 rounding is not modelled.                      *)
(*                                                                         *)
(* Naming.  A lower-case operator named like a method (setTimebase, ...)   *)
(* is the method body as a function of the dock's members; the action with *)
(* the capitalised name (SetTimebase, ...) is one call of that method.     *)
(***************************************************************************)
EXTENDS Integers, Sequences, FiniteSets

\* ------------------------------------------------------------------ bounds
NumRates == 3      \* length of the ladder of device samplerates 10^3, 10^4, ...
TimeExpSpan == 4   \* timebase inputs use the decades 10^(1-TimeExpSpan) .. 10^0
NumCalfreq == 2    \* number of calibration frequency steps of the device

\* ------------------------------------------------------- decimal arithmetic
Dec(m, e) == [m |-> m, e |-> e]

RECURSIVE Pow10(_)
Pow10(n) == IF n <= 0 THEN 1 ELSE 10 * Pow10(n - 1)

RECURSIVE Norm(_)
Norm(x) == IF x.m = 0 THEN Dec(0, 0)
           ELSE IF x.m % 10 = 0 THEN Norm(Dec(x.m \div 10, x.e + 1))
           ELSE x

RECURSIVE Digits(_)
Digits(m) == IF m < 10 THEN 1 ELSE 1 + Digits(m \div 10)

MinOf(i, j) == IF i <= j THEN i ELSE j

\* a <= b for mantissas below 10^4: a difference of five or more decades
\* decides the comparison whatever the mantissas are
Leq(a, b) ==
    LET d == a.e - b.e IN
    IF a.m = 0 THEN TRUE
    ELSE IF b.m = 0 THEN FALSE
    ELSE IF d >= 0 THEN a.m * Pow10(MinOf(d, 5)) <= b.m
    ELSE a.m <= b.m * Pow10(MinOf(0 - d, 5))

Less(a, b) == ~Leq(b, a)

Mul(a, b) == Norm(Dec(a.m * b.m, a.e + b.e))

qMax(a, b) == IF Less(a, b) THEN b ELSE a
qMin(a, b) == IF Less(b, a) THEN b ELSE a

\* pow( 10, floor( log10( x ) ) ) for x > 0
decadeOf(x) == Dec(1, x.e + Digits(x.m) - 1)

\* x / decadeOf( x ), a number in [1, 10)
vNormOf(x) == Dec(x.m, 0 - (Digits(x.m) - 1))

\* pow( 10, floor( log10( 1.0 / x ) ) ) for x > 0
decadeOfInverse(x) == IF x.m = 1 THEN Dec(1, 0 - x.e) ELSE Dec(1, 0 - (x.e + Digits(x.m)))

\* ------------------------------------------------------ program constants
samplerateMinimum == Dec(1, 0)           \* samplerateSiSpinBox->setMinimum( 1 )
samplerateMaximum == Dec(1, 8)           \* samplerateSiSpinBox->setMaximum( 1e8 )
timebaseSteps == <<Dec(1, 0), Dec(2, 0), Dec(5, 0), Dec(1, 1)>>
timebaseMinimum == Dec(1, 0 - 9)         \* timebaseSiSpinBox->setMinimum( 1e-9 )
timebaseMaximum == Dec(1, 3)             \* timebaseSiSpinBox->setMaximum( 1e3 )
minSamplesPerDiv == Dec(1, 1)            \* sRate * timebase <= 10
maxSamplesPerDiv == Dec(1, 3)            \* sRate * timebase <= 1000
minSamplerateFloor == Dec(1, 4)          \* qMin( 10e3, max )
GraphFormatTY == 0
GraphFormatXY == 1
GraphFormatEnum == GraphFormatTY .. GraphFormatXY

\* ------------------------------------------------------------ QDoubleSpinBox
\* A spin box is [value, min, max]; the three setters keep min <= value <= max.
Bound(box, v) == IF Less(v, box.min) THEN box.min
                 ELSE IF Less(box.max, v) THEN box.max
                 ELSE v

spinSetValue(box, v) == [box EXCEPT !.value = Bound(box, v)]

spinSetRange(box, mn, mx) ==
    LET b == [box EXCEPT !.min = mn, !.max = qMax(mn, mx)] IN
    [b EXCEPT !.value = Bound(b, box.value)]

spinSetMinimum(box, mn) == spinSetRange(box, mn, qMax(box.max, mn))

spinSetMaximum(box, mx) == spinSetRange(box, qMin(box.min, mx), mx)

\* the valueChanged( double ) signals a change of a spin box sends while a
\* QSignalBlocker is (blocked) or is not in force
valueChanged(old, new, blocked) ==
    IF ~blocked /\ old.value # new.value THEN <<new.value>> ELSE <<>>

\* ----------------------------------------------------------------- state
VARIABLES
    dock,      \* the members of HorizontalDock: samplerateSiSpinBox,
               \* timebaseSiSpinBox, calfreqSiSpinBox (spin boxes),
               \* formatComboBox (its current index) and samplerateSteps
    scope,     \* scope->horizontal: samplerate, timebase, format, calfreq,
               \* maxTimebase
    hidden,    \* whether the dock widget is hidden
    emitted,   \* the notifications the latest operation emitted, in order
    limits,    \* the latest call calculateSamplerateSteps made of
               \* setSamplerateLimits: <<[timebase, min, max]>>, or <<>>
    last       \* the latest operation: its name, arguments and return value

vars == <<dock, scope, hidden, emitted, limits, last>>

\* A method body maps the record st to the record after the call.
St == [dock |-> dock, scope |-> scope, emitted |-> <<>>, limits |-> limits, ret |-> <<>>]

Notification(signal, value) == [signal |-> signal, value |-> value]

\* ------------------------------------------------------------------- slots
samplerateSelected(st, samplerate) ==
    [st EXCEPT !.scope.samplerate = samplerate,
               !.emitted = Append(@, Notification("samplerateChanged", samplerate))]

\* connect( samplerateSiSpinBox, valueChanged, this, samplerateSelected ):
\* every valueChanged signal of the samplerate spin box runs the slot
RECURSIVE deliver(_, _)
deliver(st, signals) ==
    IF signals = <<>> THEN st
    ELSE deliver(samplerateSelected(st, Head(signals)), Tail(signals))

\* setSamplerateLimits without its QSignalBlocker
setSamplerateLimits_unblocked(st, minimum, maximum) ==
    LET box == st.dock.samplerateSiSpinBox
        b1 == IF minimum.m # 0 THEN spinSetMinimum(box, minimum) ELSE box
        b2 == IF maximum.m # 0 THEN spinSetMaximum(b1, maximum) ELSE b1
    IN deliver([st EXCEPT !.dock.samplerateSiSpinBox = b2],
               valueChanged(box, b1, FALSE) \o valueChanged(b1, b2, FALSE))

\* setSamplerateLimits that sets the minimum alone
setSamplerateLimits_minimumOnly(st, minimum, maximum) ==
    LET box == st.dock.samplerateSiSpinBox
        b1 == IF minimum.m # 0 THEN spinSetMinimum(box, minimum) ELSE box
    IN deliver([st EXCEPT !.dock.samplerateSiSpinBox = b1], valueChanged(box, b1, TRUE))

setSamplerateLimits(st, minimum, maximum) ==
    LET box == st.dock.samplerateSiSpinBox
        b1 == IF minimum.m # 0 THEN spinSetMinimum(box, minimum) ELSE box
        b2 == IF maximum.m # 0 THEN spinSetMaximum(b1, maximum) ELSE b1
    IN deliver([st EXCEPT !.dock.samplerateSiSpinBox = b2],
               valueChanged(box, b1, TRUE) \o valueChanged(b1, b2, TRUE))

\* the for loop of calculateSamplerateSteps; id counts from 1
RECURSIVE searchRates(_, _, _, _, _)
searchRates(steps, timebase, id, min, max) ==
    IF id > Len(steps) THEN [min |-> min, max |-> max]
    ELSE LET sRate == steps[id]
             min1 == IF id < Len(steps) /\ Leq(Mul(sRate, timebase), minSamplesPerDiv)
                     THEN sRate ELSE min
             max1 == IF id > 1 /\ Leq(Mul(sRate, timebase), maxSamplesPerDiv)
                     THEN sRate ELSE max
         IN searchRates(steps, timebase, id + 1, min1, max1)

\* calculateSamplerateSteps whose loop takes every step but the first as max,
\* without the test sRate * timebase <= 1000
samplerateRange_anyMax(steps, timebase) ==
    LET r == searchRates(steps, timebase, 1, steps[1], steps[1])
        max == steps[Len(steps)]
    IN [min |-> qMax(r.min, qMin(minSamplerateFloor, max)), max |-> max]

\* the ( min, max ) calculateSamplerateSteps passes to setSamplerateLimits
samplerateRange(steps, timebase) ==
    LET r == searchRates(steps, timebase, 1, steps[1], steps[1])
    IN [min |-> qMax(r.min, qMin(minSamplerateFloor, r.max)), max |-> r.max]

calculateSamplerateSteps(st, timebase) ==
    IF Len(st.dock.samplerateSteps) # 0
    THEN LET r == samplerateRange(st.dock.samplerateSteps, timebase)
         IN [setSamplerateLimits(st, r.min, r.max)
                EXCEPT !.limits = <<[timebase |-> timebase, min |-> r.min, max |-> r.max]>>]
    ELSE st

timebaseSelected(st, timebase) ==
    LET s1 == [st EXCEPT !.scope.timebase = timebase]
        s2 == calculateSamplerateSteps(s1, timebase)
    IN [s2 EXCEPT !.emitted = Append(@, Notification("timebaseChanged", timebase))]

formatSelected(st, index) ==
    [st EXCEPT !.scope.format = index,
               !.emitted = Append(@, Notification("formatChanged", index))]

calfreqSelected(st, calfreq) ==
    [st EXCEPT !.scope.calfreq = calfreq,
               !.emitted = Append(@, Notification("calfreqChanged", calfreq))]

\* ----------------------------------------------------------------- setters
setSamplerate(st, samplerate) ==
    LET tb == spinSetMaximum(st.dock.timebaseSiSpinBox, st.scope.maxTimebase)
        sr == spinSetValue(st.dock.samplerateSiSpinBox, samplerate)
    IN [st EXCEPT !.dock.timebaseSiSpinBox = tb,
                  !.dock.samplerateSiSpinBox = sr,
                  !.ret = <<sr.value>>]

\* setTimebase whose loop tests vNorm <= timebaseSteps.at( i + 1 )
setTimebase_inclusive(st, timebase) ==
    LET box == st.dock.timebaseSiSpinBox
        decade == decadeOf(timebase)
        vNorm == vNormOf(timebase)
        hits == {i \in 1 .. Len(timebaseSteps) - 1 :
                    Leq(timebaseSteps[i], vNorm) /\ Leq(vNorm, timebaseSteps[i + 1])}
        first == CHOOSE i \in hits : \A j \in hits : i <= j
        box1 == IF hits # {} THEN spinSetValue(box, Mul(decade, timebaseSteps[first]))
                ELSE box
        s1 == calculateSamplerateSteps([st EXCEPT !.dock.timebaseSiSpinBox = box1], timebase)
    IN [s1 EXCEPT !.ret = <<s1.dock.timebaseSiSpinBox.value>>]

setTimebase(st, timebase) ==
    LET box == st.dock.timebaseSiSpinBox
        decade == decadeOf(timebase)
        vNorm == vNormOf(timebase)
        hits == {i \in 1 .. Len(timebaseSteps) - 1 :
                    Leq(timebaseSteps[i], vNorm) /\ Less(vNorm, timebaseSteps[i + 1])}
        first == CHOOSE i \in hits : \A j \in hits : i <= j
        box1 == IF hits # {} THEN spinSetValue(box, Mul(decade, timebaseSteps[first]))
                ELSE box
        s1 == calculateSamplerateSteps([st EXCEPT !.dock.timebaseSiSpinBox = box1], timebase)
    IN [s1 EXCEPT !.ret = <<s1.dock.timebaseSiSpinBox.value>>]

setFormat(st, format) ==
    IF format >= GraphFormatTY /\ format <= GraphFormatXY
    THEN [st EXCEPT !.dock.formatComboBox = format, !.ret = <<format>>]
    ELSE [st EXCEPT !.ret = <<0 - 1>>]

setCalfreq(st, calfreq) ==
    LET cf == spinSetValue(st.dock.calfreqSiSpinBox, calfreq)
    IN [st EXCEPT !.dock.calfreqSiSpinBox = cf, !.ret = <<cf.value>>]

setSamplerateSteps(st, mode, steps) ==
    LET sr == spinSetMaximum(spinSetMinimum(st.dock.samplerateSiSpinBox, steps[1]),
                             steps[Len(steps)])
        tb == spinSetMinimum(st.dock.timebaseSiSpinBox, decadeOfInverse(steps[Len(steps)]))
        s1 == [st EXCEPT !.dock.samplerateSteps = steps,
                         !.dock.samplerateMode = mode,
                         !.dock.samplerateSiSpinBox = sr,
                         !.dock.timebaseSiSpinBox = tb]
        s2 == calculateSamplerateSteps(s1, tb.value)
    IN \* samplerateBlocker is in force until the method returns
       [s2 EXCEPT !.scope = s1.scope, !.emitted = s1.emitted]

loadSettings(st) ==
    LET s1 == setSamplerate(st, st.scope.samplerate)
        s2 == setTimebase(s1, st.scope.timebase)
        s3 == setFormat(s2, st.scope.format)
        s4 == setCalfreq(s3, st.scope.calfreq)
    IN [s4 EXCEPT !.ret = <<>>]

\* ------------------------------------------------------------------ inputs
\* the device's samplerates 10^3, 10^4, ... and the step lists built of them
Rate(i) == Dec(1, 2 + i)
RateLadder == [i \in 1 .. NumRates |-> Rate(i)]
Samplerates == {Rate(i) : i \in 1 .. NumRates}
StepLists == {SubSeq(RateLadder, a, b) : a \in 1 .. NumRates, b \in 1 .. NumRates} \ {<<>>}
Modes == {0}

\* timebases 1, 1.5, 2 and 5 times a decade; 1.5 is no step value
TimeExps == (1 - TimeExpSpan) .. 0
Timebases == {Dec(m, e) : m \in {1, 2, 5}, e \in TimeExps} \cup {Dec(15, e - 1) : e \in TimeExps}
\* the few timebases used where every control of the dock is operated
DockTimebases == {Dec(1, 0 - 2), Dec(1, 0)}
DockSamplerates == {Rate(1), Rate(NumRates)}
DockStepLists == {RateLadder, <<Rate(1)>>}
MaxTimebases == {Dec(2, 0 - 1), Dec(1, 1)}

calfreqSteps == [i \in 1 .. NumCalfreq |-> Dec(1, 1 + i)]
Calfreqs == {calfreqSteps[i] : i \in 1 .. NumCalfreq}

\* ------------------------------------------------------------- construction
\* the members as the constructor leaves them before it calls loadSettings
constructed ==
    [samplerateSiSpinBox |-> spinSetMaximum(spinSetMinimum(
                                 [value |-> Dec(1, 0), min |-> Dec(1, 0), max |-> Dec(1, 0)],
                                 samplerateMinimum), samplerateMaximum),
     timebaseSiSpinBox |-> spinSetMaximum(spinSetMinimum(
                                 [value |-> Dec(1, 0), min |-> Dec(1, 0), max |-> Dec(1, 0)],
                                 timebaseMinimum), timebaseMaximum),
     formatComboBox |-> GraphFormatTY,
     calfreqSiSpinBox |-> spinSetMaximum(spinSetMinimum(
                                 [value |-> Dec(1, 0), min |-> Dec(1, 0), max |-> Dec(1, 0)],
                                 calfreqSteps[1]), calfreqSteps[Len(calfreqSteps)]),
     samplerateSteps |-> <<>>,
     samplerateMode |-> 0]

\* the settings the dock is constructed from
InitialSettings ==
    [samplerate : {Rate(1)}, timebase : {Dec(1, 0 - 2)}, format : GraphFormatEnum,
     calfreq : {calfreqSteps[1]}, maxTimebase : MaxTimebases]

Init ==
    \E settings \in InitialSettings :
        LET r == loadSettings([dock |-> constructed,
                               scope |-> settings,
                               emitted |-> <<>>, limits |-> <<>>, ret |-> <<>>])
        IN /\ dock = r.dock
           /\ scope = r.scope
           /\ hidden = FALSE
           /\ emitted = <<>>
           /\ limits = r.limits
           /\ last = [op |-> "HorizontalDock", arg |-> <<>>, ret |-> <<>>]

\* ----------------------------------------------------------------- actions
Returns(r, op, arg) ==
    /\ dock' = r.dock
    /\ scope' = r.scope
    /\ emitted' = r.emitted
    /\ limits' = r.limits
    /\ last' = [op |-> op, arg |-> arg, ret |-> r.ret]
    /\ UNCHANGED hidden

InRange(box, v) == Leq(box.min, v) /\ Leq(v, box.max)

SetSamplerate(samplerate) == Returns(setSamplerate(St, samplerate), "setSamplerate", <<samplerate>>)

SetTimebase(timebase) == Returns(setTimebase(St, timebase), "setTimebase", <<timebase>>)

SetFormat(format) == Returns(setFormat(St, format), "setFormat", <<format>>)

SetCalfreq(calfreq) == Returns(setCalfreq(St, calfreq), "setCalfreq", <<calfreq>>)

SetSamplerateLimits(minimum, maximum) ==
    Returns(setSamplerateLimits(St, minimum, maximum), "setSamplerateLimits", <<minimum, maximum>>)

SetSamplerateSteps(mode, steps) ==
    Returns(setSamplerateSteps(St, mode, steps), "setSamplerateSteps", <<mode, steps>>)

LoadSettings == Returns(loadSettings(St), "loadSettings", <<>>)

\* the user changes the value of a control; the control sends valueChanged
\* ( currentIndexChanged ) and the connected slot runs
SamplerateEdited(v) ==
    /\ InRange(dock.samplerateSiSpinBox, v) /\ v # dock.samplerateSiSpinBox.value
    /\ Returns(samplerateSelected([St EXCEPT !.dock.samplerateSiSpinBox.value = v], v),
               "samplerateSelected", <<v>>)

TimebaseEdited(v) ==
    /\ InRange(dock.timebaseSiSpinBox, v) /\ v # dock.timebaseSiSpinBox.value
    /\ Returns(timebaseSelected([St EXCEPT !.dock.timebaseSiSpinBox.value = v], v),
               "timebaseSelected", <<v>>)

FormatEdited(index) ==
    /\ index # dock.formatComboBox
    /\ Returns(formatSelected([St EXCEPT !.dock.formatComboBox = index], index),
               "formatSelected", <<index>>)

CalfreqEdited(v) ==
    /\ InRange(dock.calfreqSiSpinBox, v) /\ v # dock.calfreqSiSpinBox.value
    /\ Returns(calfreqSelected([St EXCEPT !.dock.calfreqSiSpinBox.value = v], v),
               "calfreqSelected", <<v>>)

\* closeEvent that also loads the settings into the controls again
CloseEvent_reload ==
    /\ hidden' = TRUE
    /\ emitted' = <<>>
    /\ last' = [op |-> "closeEvent", arg |-> <<>>, ret |-> <<"accepted">>]
    /\ dock' = loadSettings(St).dock
    /\ UNCHANGED <<scope, limits>>

CloseEvent ==
    /\ hidden' = TRUE
    /\ emitted' = <<>>
    /\ last' = [op |-> "closeEvent", arg |-> <<>>, ret |-> <<"accepted">>]
    /\ UNCHANGED <<dock, scope, limits>>

Next ==
    \/ \E samplerate \in DockSamplerates : SetSamplerate(samplerate)
    \/ \E timebase \in DockTimebases : SetTimebase(timebase)
    \/ \E format \in GraphFormatEnum \cup {GraphFormatXY + 1} : SetFormat(format)
    \/ \E calfreq \in Calfreqs : SetCalfreq(calfreq)
    \/ \E minimum \in DockSamplerates \cup {Dec(0, 0)}, maximum \in DockSamplerates \cup {Dec(0, 0)} :
          SetSamplerateLimits(minimum, maximum)
    \/ \E mode \in Modes, steps \in DockStepLists : SetSamplerateSteps(mode, steps)
    \/ LoadSettings
    \/ \E v \in DockSamplerates : SamplerateEdited(v)
    \/ \E v \in DockTimebases : TimebaseEdited(v)
    \/ \E index \in GraphFormatEnum : FormatEdited(index)
    \/ \E v \in Calfreqs : CalfreqEdited(v)
    \/ CloseEvent

Spec == Init /\ [][Next]_vars

\* The operations on the timebase and the samplerate range alone, from the
\* default format and calibration frequency
InitAxis == Init /\ scope.format = GraphFormatTY

NextAxis ==
    \/ \E samplerate \in Samplerates : SetSamplerate(samplerate)
    \/ \E timebase \in Timebases : SetTimebase(timebase)
    \/ \E mode \in Modes, steps \in StepLists : SetSamplerateSteps(mode, steps)
    \/ \E v \in Timebases : TimebaseEdited(v)

SpecAxis == InitAxis /\ [][NextAxis]_vars

\* =================================================================== claims
box == dock.samplerateSiSpinBox
tbox == dock.timebaseSiSpinBox
steps == dock.samplerateSteps
lastRate == steps[Len(steps)]

\* the powers of ten and the largest of a set of numbers that is <= t
PowersOfTen == {Dec(1, e) : e \in (0 - 12) .. 6}
LargestBelow(S, t) == CHOOSE x \in S : Leq(x, t) /\ \A y \in S : Leq(y, t) => Leq(y, x)
\* d * s, for d the largest power of ten <= t and s the largest of 1, 2, 5
\* with d * s <= t
StepValueBelow(t) ==
    LET d == LargestBelow(PowersOfTen, t)
    IN LargestBelow({Mul(d, Dec(s, 0)) : s \in {1, 2, 5}}, t)

SlotField(op) == CASE op = "samplerateSelected" -> "samplerate"
                   [] op = "timebaseSelected" -> "timebase"
                   [] op = "formatSelected" -> "format"
                   [] op = "calfreqSelected" -> "calfreq"
SlotSignal(op) == CASE op = "samplerateSelected" -> "samplerateChanged"
                    [] op = "timebaseSelected" -> "timebaseChanged"
                    [] op = "formatSelected" -> "formatChanged"
                    [] op = "calfreqSelected" -> "calfreqChanged"
Slots == {"samplerateSelected", "timebaseSelected", "formatSelected", "calfreqSelected"}

\* C2: a step of samplerateSelected(v), timebaseSelected(v), formatSelected(v)
\* or calfreqSelected(v) stores v in its own field of scope->horizontal,
\* leaves the other fields unchanged and emits exactly one notification, of
\* its own kind, that carries v.
C2_SlotsPropagate ==
    [][last'.op \in Slots =>
          /\ scope' = [scope EXCEPT ![SlotField(last'.op)] = last'.arg[1]]
          /\ emitted' = <<Notification(SlotSignal(last'.op), last'.arg[1])>>]_vars

\* a timebase edit that narrowed the samplerate range below the value the
\* samplerate spin box showed, and clamped that value without a notification
C2_Witness ==
    /\ last.op = "timebaseSelected"
    /\ scope.timebase = last.arg[1]
    /\ emitted = <<Notification("timebaseChanged", last.arg[1])>>
    /\ Len(steps) >= 2 /\ box.min = box.max /\ box.value # scope.samplerate

\* C3 as claimed: once samplerate steps are installed, the range of the
\* samplerate spin box is the range calculateSamplerateSteps computes for the
\* value the timebase spin box shows.
C3_RangeOfShownTimebase ==
    steps # <<>> =>
        [min |-> box.min, max |-> box.max] = samplerateRange(steps, tbox.value)

\* C3 as amended: once samplerate steps are installed, the range of the
\* samplerate spin box is the range calculateSamplerateSteps computes for the
\* timebase it was last called with: the argument of setTimebase as passed
\* (not the step value shown), the value of a timebase edit, or the value
\* shown when setSamplerateSteps returned.
C3_RangeOfLastTimebase ==
    steps # <<>> =>
        /\ limits # <<>>
        /\ [min |-> box.min, max |-> box.max] = samplerateRange(steps, limits[1].timebase)
        /\ (last.op = "setTimebase" => limits[1].timebase = last.arg[1])
        /\ (last.op \in {"timebaseSelected", "setSamplerateSteps"}
                => limits[1].timebase = tbox.value)

\* setTimebase( 0.015 ) shows 0.01 and has set the range of 0.015, which is
\* another range than that of 0.01
C3_Witness ==
    /\ steps # <<>> /\ last.op = "setTimebase" /\ last.arg = <<Dec(15, 0 - 3)>>
    /\ tbox.value = Dec(1, 0 - 2)
    /\ [min |-> box.min, max |-> box.max] = samplerateRange(steps, Dec(15, 0 - 3))
    /\ samplerateRange(steps, Dec(15, 0 - 3)) # samplerateRange(steps, Dec(1, 0 - 2))

\* C4: a close event hides the dock and is accepted, and changes neither a
\* control nor scope->horizontal; on the hidden dock a timebase edit still
\* reaches scope->horizontal and a setter still sets and returns the value of
\* its control.
C4_CloseOnlyHides ==
    [][/\ last'.op = "closeEvent"
          => hidden' /\ last'.ret = <<"accepted">> /\ UNCHANGED <<dock, scope, limits>>
       /\ last'.op # "closeEvent" => hidden' = hidden
       /\ (hidden /\ last'.op \in Slots)
          => scope'[SlotField(last'.op)] = last'.arg[1]
       /\ (hidden /\ last'.op = "setCalfreq")
          => last'.ret = <<dock'.calfreqSiSpinBox.value>> /\ last'.ret = last'.arg]_vars

\* the dock was closed and a later timebase edit has reached scope->horizontal
C4_Witness ==
    /\ hidden /\ last.op = "timebaseSelected"
    /\ scope.timebase = last.arg[1] /\ tbox.value = last.arg[1]

C6_MinBelowHighestRate ==
    (limits # <<>> /\ Len(steps) >= 2) => Less(limits[1].min, lastRate)

====
